---- MODULE Spec2Model ----
(***************************************************************************)
(* sfctl application package upload and application type provisioning      *)
(* (src/src/sfctl/custom_app.py).  One command runs per behaviour: either  *)
(* `upload` (file-share or native image store transport) or                *)
(* `provision_application_type`.  Paths, connection strings and names are  *)
(* strings and are processed character by character as the Python string   *)
(* and os.path functions do (POSIX flavour, os.sep = "/").                 *)
(***************************************************************************)
EXTENDS Naturals, Integers, Sequences, FiniteSets, TLC

\* ----------------------------------------------------------------- bounds
\* Largest number of directories (root included) in a source package tree.
MaxDirs == 3
\* Largest number of files in a source package tree (all directories).
MaxFiles == 2
\* Largest number of tokens a connection string is assembled from.
MaxTokens == 3
\* Largest number of provisioning calls made with the same inputs.
MaxCalls == 2

\* Directory and file names used in source trees.
DirNames == {"a", "b"}
FileNames == {"f", "g"}

\* ------------------------------------------------- Python string functions
\* s.startswith(p)
StartsWith(s, p) == Len(p) <= Len(s) /\ SubSeq(s, 1, Len(p)) = p

\* s.find(sub, i): lowest index >= i (1-based) where sub occurs, 0 if none.
RECURSIVE Find(_, _, _)
Find(s, sub, i) ==
    IF i + Len(sub) - 1 > Len(s) THEN 0
    ELSE IF SubSeq(s, i, i + Len(sub) - 1) = sub THEN i
    ELSE Find(s, sub, i + 1)

\* sub in s
Contains(s, sub) == Find(s, sub, 1) # 0

\* s.split(sep), sep non-empty: the pieces between the occurrences of sep,
\* scanned left to right without overlap.
RECURSIVE Split(_, _)
Split(s, sep) ==
    LET k == Find(s, sep, 1) IN
    IF k = 0 THEN <<s>>
    ELSE <<SubSeq(s, 1, k - 1)>> \o Split(SubSeq(s, k + Len(sep), Len(s)), sep)

\* sep.join(parts)
RECURSIVE StrJoin(_, _)
StrJoin(parts, sep) ==
    IF parts = <<>> THEN ""
    ELSE IF Len(parts) = 1 THEN parts[1]
    ELSE parts[1] \o sep \o StrJoin(Tail(parts), sep)

\* s.replace(old, new), old non-empty: every non-overlapping occurrence.
Replace(s, old, new) == StrJoin(Split(s, old), new)

\* s.lstrip(ch) for a one-character ch.
RECURSIVE LStrip(_, _)
LStrip(s, ch) ==
    IF Len(s) > 0 /\ SubSeq(s, 1, 1) = ch THEN LStrip(SubSeq(s, 2, Len(s)), ch)
    ELSE s

\* ------------------------------------------------------ os.path functions
\* os.path.join(a, b)
Join(a, b) ==
    IF StartsWith(b, "/") THEN b
    ELSE IF a = "" \/ SubSeq(a, Len(a), Len(a)) = "/" THEN a \o b
    ELSE a \o "/" \o b

\* The component loop of posixpath.normpath.
RECURSIVE NormComps(_, _, _)
NormComps(comps, acc, rooted) ==
    IF comps = <<>> THEN acc
    ELSE LET c == Head(comps) IN
         IF c = "" \/ c = "." THEN NormComps(Tail(comps), acc, rooted)
         ELSE IF c # ".."
                 \/ (~rooted /\ acc = <<>>)
                 \/ (acc # <<>> /\ acc[Len(acc)] = "..")
              THEN NormComps(Tail(comps), Append(acc, c), rooted)
         ELSE IF acc # <<>>
              THEN NormComps(Tail(comps), SubSeq(acc, 1, Len(acc) - 1), rooted)
         ELSE NormComps(Tail(comps), acc, rooted)

\* os.path.normpath(p)
NormPath(p) ==
    IF p = "" THEN "."
    ELSE LET slashes == IF ~StartsWith(p, "/") THEN ""
                        ELSE IF StartsWith(p, "//") /\ ~StartsWith(p, "///")
                             THEN "//" ELSE "/"
             body == StrJoin(NormComps(Split(p, "/"), <<>>, slashes # ""), "/")
         IN IF slashes \o body = "" THEN "." ELSE slashes \o body

\* os.path.basename(p)
BaseName(p) == LET parts == Split(p, "/") IN parts[Len(parts)]

\* The non-empty components of a path.
Components(p) == SelectSeq(Split(p, "/"), LAMBDA c : c # "")

RECURSIVE CommonLen(_, _)
CommonLen(xs, ys) ==
    IF xs = <<>> \/ ys = <<>> \/ Head(xs) # Head(ys) THEN 0
    ELSE 1 + CommonLen(Tail(xs), Tail(ys))

\* os.path.relpath(p, start) for absolute p and start.
RelPath(p, start) ==
    LET sl == Components(NormPath(start))
        pl == Components(NormPath(p))
        i  == CommonLen(sl, pl)
        rel == [k \in 1..(Len(sl) - i) |-> ".."] \o SubSeq(pl, i + 1, Len(pl))
    IN IF rel = <<>> THEN "." ELSE StrJoin(rel, "/")

\* --------------------------------------------------- the source file system
\* A source tree is a function from each directory's path to its listing:
\* the sub-directory names and the file names, each in the order the
\* operating system's directory scan returns them.  The bytes of a source
\* file are identified by the file's path.

\* All orderings of a finite set.
Perms(S) ==
    {s \in [1..Cardinality(S) -> S] : \A i, j \in DOMAIN s : s[i] = s[j] => i = j}

\* The sets of directory paths of the trees rooted at top with <= n
\* directories.
RECURSIVE DirSets(_, _)
DirSets(top, n) ==
    IF n <= 1 THEN {{top}}
    ELSE LET prev == DirSets(top, n - 1) IN
         prev \cup UNION {{t \cup {Join(p, c)} : p \in t, c \in DirNames} : t \in prev}

\* The listings directory d can have in the tree with directories t, holding
\* at most budget files.
Entries(d, t, budget) ==
    {[dirs |-> ds, files |-> fs] :
        ds \in Perms({c \in DirNames : Join(d, c) \in t}),
        fs \in UNION {Perms(F) : F \in {G \in SUBSET FileNames : Cardinality(G) <= budget}}}

\* The trees over the directories ds of t holding at most budget files.
RECURSIVE Listings(_, _, _)
Listings(ds, t, budget) ==
    IF ds = {} THEN {<<>>}
    ELSE LET d == CHOOSE x \in ds : TRUE IN
         UNION {{(d :> e) @@ rest : rest \in Listings(ds \ {d}, t, budget - Len(e.files))} :
                    e \in Entries(d, t, budget)}

\* Every source tree rooted at top within the bounds.
Trees(top) == UNION {Listings(t, t, MaxFiles) : t \in DirSets(top, MaxDirs)}

\* The paths of the files of the tree fs.
SourceFiles(fs) ==
    UNION {{NormPath(Join(d, fs[d].files[k])) : k \in 1..Len(fs[d].files)} : d \in DOMAIN fs}

\* os.walk(top): top-down, one (root, dirs, files) triple per directory, the
\* sub-directories visited in listing order.
RECURSIVE OsWalk(_, _)
RECURSIVE WalkEach(_, _, _)
OsWalk(fs, top) ==
    IF top \notin DOMAIN fs THEN <<>>
    ELSE <<[root |-> top, dirs |-> fs[top].dirs, files |-> fs[top].files]>>
         \o WalkEach(fs, top, fs[top].dirs)
WalkEach(fs, top, names) ==
    IF names = <<>> THEN <<>>
    ELSE OsWalk(fs, Join(top, Head(names))) \o WalkEach(fs, top, Tail(names))

\* Sum of f over a sequence.
RECURSIVE SumLen(_)
SumLen(walk) == IF walk = <<>> THEN 0 ELSE Len(Head(walk).files) + SumLen(Tail(walk))

\* ------------------------------------------------------------------- state
VARIABLES
    op,                   \* the command run: "upload" or "provision"
    pc,                   \* the command's position
    err,                  \* the exception that ended the command, or NoError
    args,                 \* upload's arguments: path, imagestore_string, show_progress
    config,               \* sfctl.config: endpoint, no_verify, ca_cert_info, cert_info
    store,                \* the statuses the image store answers a PUT with
    fs,                   \* the local file system holding the package
    abspath,              \* upload: the validated package directory
    dest,                 \* upload_to_fileshare: the destination folder
    total_files_count,    \* both transports: the pre-scanned total
    current_files_count,  \* both transports: the units completed
    di,                   \* index in os.walk of the directory being transferred
    fi,                   \* index of the next file in that directory's listing
    walker,               \* upload_to_fileshare: the os.walk generator of the second walk
    res,                  \* upload_to_native_imagestore: the last response status
    session,              \* the requests.Session of the upload
    puts,                 \* the PUT requests issued, in order
    copies,               \* the shutil.copyfile calls that returned, in order
    dstDirs,              \* the directories of the file share
    dstFiles,             \* the files of the file share, with their bytes
    stderr,               \* the lines written to sys.stderr
    pargs,                \* provision_application_type's arguments
    description,          \* provision_application_type_description_input
    posts,                \* the provisioning POST requests sent, in order
    responses,            \* the provisioning responses received, in order
    calls                 \* the outcomes of the provisioning calls that ended

uploadVars == <<args, config, store, fs, abspath, dest, total_files_count,
                current_files_count, di, fi, walker, res, session, puts, copies,
                dstDirs, dstFiles, stderr>>
provisionVars == <<pargs, description, posts, responses, calls>>
vars == <<op, pc, err, uploadVars, provisionVars>>

NoError == [type |-> "", msg |-> ""]
NoWalk == [pending |-> <<>>, root |-> "", files |-> <<>>]
NoSession == [state |-> "none", verify |-> "", cert |-> ""]
NoArgs == [path |-> "", imagestore_string |-> "", show_progress |-> FALSE]
NoConfig == [endpoint |-> [scheme |-> "", netloc |-> ""], no_verify |-> FALSE,
             ca_cert_info |-> "", cert_info |-> ""]
NoProvisionArgs == [provision_kind |-> "", async |-> "", application_type_build_path |-> "",
                    application_package_download_uri |-> "", application_type_name |-> "",
                    application_type_version |-> "", timeout |-> <<>>, raw |-> FALSE]
NoDescription == [type |-> "None"]

\* The process's working directory.
Cwd == "/"

\* os.path.abspath(p)
AbsPath(p) == NormPath(Join(Cwd, p))

\* The disk holds the package tree, the root directory, and what the upload
\* has put there: the directories dirs it made and the files it wrote, both
\* under their absolute paths.
\* os.path.isdir(p)
IsDir(tree, dirs, p) == p # "" /\ AbsPath(p) \in DOMAIN tree \cup dirs \cup {"/"}

\* os.path.isfile(p)
IsFile(tree, files, p) ==
    p # "" /\ AbsPath(p) \in SourceFiles(tree) \cup {e.path : e \in files}

\* The bytes read from the file at the absolute path p: those last written
\* there by the upload, or else the package file's own.
FileData(files, p) ==
    IF \E e \in files : e.path = p THEN (CHOOSE e \in files : e.path = p).data ELSE p

\* ---------------------------------------------------------------- upload
\* validate_app_path: the absolute path when it is a directory.
validate_app_path(files, dirs, app_path) ==
    LET ap == AbsPath(app_path) IN
    IF IsDir(files, dirs, ap) THEN [ok |-> TRUE, value |-> ap]
    ELSE [ok |-> FALSE, value |-> "Invalid path to application directory: " \o ap]

\* print_progress: one line on stderr when show_progress is set.
print_progress(lines, current, total, rel_file_path, show) ==
    IF show
    THEN Append(lines, "[" \o ToString(current) \o "/" \o ToString(total) \o "] files, "
                           \o rel_file_path)
    ELSE lines

\* print('Complete', file=sys.stderr) when show_progress is set.
print_complete(lines, show) == IF show THEN Append(lines, "Complete") ELSE lines

\* path_from_imagestore_string: the piece after the first "file:".
path_from_imagestore_string(imagestore_connstr) ==
    IF imagestore_connstr # "" /\ Contains(imagestore_connstr, "file:")
    THEN Split(imagestore_connstr, "file:")[2]
    ELSE FALSE

\* upload: the trust setting given to the session.
CaCert(cfg) ==
    IF cfg.no_verify THEN "False"
    ELSE IF cfg.ca_cert_info # "" THEN cfg.ca_cert_info
    ELSE "True"

\* A variant of ConfigConflict: the check is left out.
ConfigConflictUnchecked(cfg) == FALSE

\* upload: all([no_verify_setting(), ca_cert_info()])
ConfigConflict(cfg) == cfg.no_verify /\ cfg.ca_cert_info # ""

\* upload: the transport the connection string selects.
Transport(imagestore_string) ==
    IF Contains(imagestore_string, "file:") THEN "fileshare"
    ELSE IF imagestore_string = "fabric:ImageStore" THEN "native"
    ELSE "unsupported"

\* upload, up to the call of a transport.
Upload ==
    /\ op = "upload" /\ pc = "start"
    /\ LET v == validate_app_path(fs, dstDirs, args.path) IN
       IF ~v.ok
       THEN /\ pc' = "error"
            /\ err' = [type |-> "ValueError", msg |-> v.value]
            /\ UNCHANGED <<abspath, dest, session, di, fi, walker>>
       ELSE IF ConfigConflict(config)
       THEN /\ pc' = "error"
            /\ err' = [type |-> "CLIError", msg |-> "Cannot specify both CA cert info and no verify"]
            /\ abspath' = v.value
            /\ UNCHANGED <<dest, session, di, fi, walker>>
       ELSE IF Transport(args.imagestore_string) = "fileshare"
       THEN /\ pc' = "fileshare"
            /\ abspath' = v.value
            /\ dest' = Join(path_from_imagestore_string(args.imagestore_string),
                            BaseName(v.value))
            /\ UNCHANGED <<err, session, di, fi, walker>>
       ELSE IF Transport(args.imagestore_string) = "native"
       THEN /\ pc' = "native"
            /\ abspath' = v.value
            /\ session' = [state |-> "open", verify |-> CaCert(config), cert |-> config.cert_info]
            /\ UNCHANGED <<err, dest, di, fi, walker>>
       ELSE /\ pc' = "error"
            /\ err' = [type |-> "CLIError", msg |-> "Unsupported image store connection string"]
            /\ abspath' = v.value
            /\ UNCHANGED <<dest, session, di, fi, walker>>
    /\ UNCHANGED <<op, args, config, store, fs, total_files_count, current_files_count, res,
                   puts, copies, dstDirs, dstFiles, stderr, provisionVars>>

\* A variant of NativeTotal: the markers are not counted.
NativeTotalFilesOnly(walk) == SumLen(walk)

\* upload_to_fileshare: the total of the first walk.
FileshareTotal(walk) == SumLen(walk)

\* upload_to_native_imagestore: the total of the first walk.
NativeTotal(walk) == SumLen(walk) + Len(walk)

\* --- the file share
\* An absolute path and its ancestors below the root directory, the
\* directories os.makedirs makes sure of.
RECURSIVE Prefixes(_, _)
Prefixes(comps, lead) ==
    IF comps = <<>> THEN {}
    ELSE {lead \o StrJoin(comps, "/")} \cup Prefixes(SubSeq(comps, 1, Len(comps) - 1), lead)

Ancestors(p) == Prefixes(Components(AbsPath(p)), "/")

\* os.makedirs(p) makes the missing directories of Ancestors(p) one by one,
\* the shallowest first, and raises when one cannot be made.
\* The directories it has to make.
Missing(tree, dirs, p) == {a \in Ancestors(p) : ~IsDir(tree, dirs, a)}

\* The directories whose making can fail: any missing one not below a file.
MakedirsFailures(tree, dirs, files, p) ==
    {x \in Missing(tree, dirs, p) :
        \A a \in Ancestors(p) : Len(a) < Len(x) => ~IsFile(tree, files, a)}

\* The directories made before the making of x fails.
MadeBefore(tree, dirs, p, x) == {a \in Missing(tree, dirs, p) : Len(a) < Len(x)}

\* The names of the entries of directory d among the absolute paths ps.
Children(d, ps) == {BaseName(p) : p \in {q \in ps : q # "/" /\ Join(d, BaseName(q)) = q}}

\* The sub-directories and the files os.walk finds in directory d when it
\* lists it: those of the package and those the upload has put there.
LiveDirs(tree, dirs, d) == Children(d, DOMAIN tree \cup dirs)
LiveFiles(tree, files, d) == Children(d, SourceFiles(tree) \cup {e.path : e \in files})

\* The orders a listing can return the names in: the package's entries in
\* the order of the package's listing, the new entries anywhere among them.
Listed(old, names) ==
    {l \in Perms(names) :
        \A i, j \in DOMAIN old :
            i < j => \A m, n \in DOMAIN l : (l[m] = old[i] /\ l[n] = old[j]) => m < n}

\* upload_to_fileshare: the first walk.  Nothing has been written yet, so
\* the walk finds the package as it is on disk.
FileshareScan ==
    /\ op = "upload" /\ pc = "fileshare"
    /\ total_files_count' = FileshareTotal(OsWalk(fs, abspath))
    /\ current_files_count' = 0
    /\ walker' = [pending |-> <<abspath>>, root |-> "", files |-> <<>>]
    /\ fi' = 1
    /\ pc' = "fs_copy"
    /\ UNCHANGED <<op, err, args, config, store, fs, abspath, dest, di, res, session, puts, copies,
                   dstDirs, dstFiles, stderr, provisionVars>>

\* upload_to_fileshare: the second os.walk yields its next directory.  The
\* generator lists a directory only when it reaches it, so it finds what the
\* loop has written there in the meantime; the sub-directories it found are
\* visited next, before the directories still pending.
FileshareWalk ==
    /\ op = "upload" /\ pc = "fs_copy"
    /\ fi > Len(walker.files)
    /\ walker.pending # <<>>
    /\ LET d == Head(walker.pending)
           olddirs == IF d \in DOMAIN fs THEN fs[d].dirs ELSE <<>>
           oldfiles == IF d \in DOMAIN fs THEN fs[d].files ELSE <<>>
       IN \E ds \in Listed(olddirs, LiveDirs(fs, dstDirs, d)),
             fl \in Listed(oldfiles, LiveFiles(fs, dstFiles, d)) :
             walker' = [pending |-> [k \in DOMAIN ds |-> Join(d, ds[k])]
                                       \o Tail(walker.pending),
                        root |-> d, files |-> fl]
    /\ fi' = 1
    /\ UNCHANGED <<op, pc, err, args, config, store, fs, abspath, dest, total_files_count,
                   current_files_count, di, res, session, puts, copies, dstDirs,
                   dstFiles, stderr, provisionVars>>

\* upload_to_fileshare: the directory a file of root is copied into.
FileshareRelPath(root, source) == LStrip(Replace(root, source, ""), "/")

\* What shutil.copyfile leaves at the destination when it raises after
\* opening it for writing: a file holding part of the source's bytes.
Partial(data) == "part of " \o data

\* upload_to_fileshare: one iteration of the inner loop of the second walk.
FileshareCopy ==
    /\ op = "upload" /\ pc = "fs_copy"
    /\ fi <= Len(walker.files)
    /\ LET root == walker.root
           f == walker.files[fi]
           rel_path == FileshareRelPath(root, abspath)
           dest_path == Join(dest, rel_path)
           src == NormPath(Join(root, f))
           target == AbsPath(Join(dest_path, f))
           isdir == IsDir(fs, dstDirs, dest_path)
           made == IF isdir THEN dstDirs
                   ELSE dstDirs \cup Missing(fs, dstDirs, dest_path)
           \* a file stands where os.makedirs needs a directory
           blocked == \E a \in Ancestors(dest_path) : IsFile(fs, dstFiles, a)
           \* shutil.copyfile refuses: source and destination are the
           \* same file, or the destination is a directory
           refused == target = src \/ target \in DOMAIN fs \cup made
           written(data) == {e \in dstFiles : e.path # target}
                               \cup {[path |-> target, data |-> data]}
       IN \/ \* os.makedirs raises
             /\ ~isdir
             /\ \E x \in MakedirsFailures(fs, dstDirs, dstFiles, dest_path) :
                   dstDirs' = dstDirs \cup MadeBefore(fs, dstDirs, dest_path, x)
             /\ pc' = "error"
             /\ err' = [type |-> "OSError", msg |-> "makedirs"]
             /\ UNCHANGED <<dstFiles, copies, current_files_count, stderr, fi>>
          \/ \* shutil.copyfile raises, before or after opening the destination
             /\ ~blocked
             /\ dstDirs' = made
             /\ \/ dstFiles' = dstFiles
                \/ ~refused /\ dstFiles' = written(Partial(FileData(dstFiles, src)))
             /\ pc' = "error"
             /\ err' = [type |-> "OSError", msg |-> "copyfile"]
             /\ UNCHANGED <<copies, current_files_count, stderr, fi>>
          \/ \* the file is copied
             /\ ~blocked /\ ~refused
             /\ dstDirs' = made
             /\ dstFiles' = written(FileData(dstFiles, src))
             /\ copies' = Append(copies, [src |-> Join(root, f), dst |-> Join(dest_path, f)])
             /\ current_files_count' = current_files_count + 1
             /\ stderr' = print_progress(stderr, current_files_count + 1, total_files_count,
                                         NormPath(Join(rel_path, f)), args.show_progress)
             /\ fi' = fi + 1
             /\ UNCHANGED <<pc, err>>
    /\ UNCHANGED <<op, args, config, store, fs, abspath, dest, total_files_count, di, walker, res,
                   session, puts, provisionVars>>

\* upload_to_fileshare: after the second walk.
FileshareComplete ==
    /\ op = "upload" /\ pc = "fs_copy"
    /\ fi > Len(walker.files)
    /\ walker.pending = <<>>
    /\ stderr' = print_complete(stderr, args.show_progress)
    /\ pc' = "done"
    /\ UNCHANGED <<op, err, args, config, store, fs, abspath, dest, total_files_count,
                   current_files_count, di, fi, walker, res, session, puts, copies, dstDirs,
                   dstFiles, provisionVars>>

\* --- the native image store
\* The status codes a PUT is answered with: by an image store that accepts
\* or rejects it, and by one that may also answer that nothing was modified.
Statuses == {200, 404, 500}
StatusesWith304 == Statuses \cup {304}

\* A variant of RaisesForStatus: only server errors raise.
RaisesForServerError(status) == status >= 500 /\ status < 600

\* requests: Response.raise_for_status raises HTTPError for 4xx and 5xx.
RaisesForStatus(status) == status >= 400 /\ status < 600

\* requests: Response.ok
ResponseOk(status) == ~(status >= 400 /\ status < 600)

\* upload_to_native_imagestore: the path of the object a unit is PUT to.
UrlPath(basename, rel_path, name) ==
    Replace(NormPath(Join(Join(Join("ImageStore", basename), rel_path), name)), "\\", "/")

\* upload_to_native_imagestore: the endpoint with its path and query replaced.
Url(endpoint, url_path) ==
    endpoint.scheme \o "://" \o endpoint.netloc
        \o (IF StartsWith(url_path, "/") THEN "" ELSE "/") \o url_path
        \o "?" \o "api-version=6.1"

\* upload_to_native_imagestore: the first walk.  The transport writes nothing
\* to the disk, so both its walks find the package as OsWalk lists it.
NativeScan ==
    /\ op = "upload" /\ pc = "native"
    /\ total_files_count' = NativeTotal(OsWalk(fs, abspath))
    /\ current_files_count' = 0
    /\ di' = 1 /\ fi' = 1
    /\ pc' = "ns_put"
    /\ UNCHANGED <<op, err, args, config, store, fs, abspath, dest, walker, res, session, puts,
                   copies, dstDirs, dstFiles, stderr, provisionVars>>

\* Leaving the `with requests.Session()` block of upload.
Closed(sesh) == [sesh EXCEPT !.state = "closed"]

\* upload_to_native_imagestore: one iteration of the inner loop, a file PUT.
NativePutFile ==
    /\ op = "upload" /\ pc = "ns_put"
    /\ LET walk == OsWalk(fs, abspath) IN
       /\ di <= Len(walk)
       /\ fi <= Len(walk[di].files)
       /\ LET root == walk[di].root
              f == walk[di].files[fi]
              rel_path == NormPath(RelPath(root, abspath))
              url_path == UrlPath(BaseName(abspath), rel_path, f)
              fp_norm == NormPath(Join(root, f))
              request == [url |-> Url(config.endpoint, url_path), data |-> fp_norm,
                          dir |-> root]
          IN \/ \* open raises
                /\ pc' = "error"
                /\ err' = [type |-> "IOError", msg |-> fp_norm]
                /\ session' = Closed(session)
                /\ UNCHANGED <<puts, res, current_files_count, stderr, fi>>
             \/ \* sesh.put raises
                /\ puts' = Append(puts, request @@ [ok |-> FALSE, status |-> 0])
                /\ pc' = "error"
                /\ err' = [type |-> "ConnectionError", msg |-> request.url]
                /\ session' = Closed(session)
                /\ UNCHANGED <<res, current_files_count, stderr, fi>>
             \/ \E status \in store :
                /\ puts' = Append(puts, request @@ [ok |-> ResponseOk(status), status |-> status])
                /\ res' = status
                /\ IF RaisesForStatus(status)
                   THEN /\ pc' = "error"
                        /\ err' = [type |-> "HTTPError", msg |-> request.url]
                        /\ session' = Closed(session)
                        /\ UNCHANGED <<current_files_count, stderr, fi>>
                   ELSE /\ current_files_count' = current_files_count + 1
                        /\ stderr' = print_progress(stderr, current_files_count + 1,
                                                    total_files_count,
                                                    NormPath(Join(rel_path, f)),
                                                    args.show_progress)
                        /\ fi' = fi + 1
                        /\ UNCHANGED <<pc, err, session>>
    /\ UNCHANGED <<op, args, config, store, fs, abspath, dest, total_files_count, di, walker,
                   copies, dstDirs, dstFiles, provisionVars>>

\* upload_to_native_imagestore: the end of an outer iteration, the PUT of the
\* directory's "_.dir" marker.
NativePutMarker ==
    /\ op = "upload" /\ pc = "ns_put"
    /\ LET walk == OsWalk(fs, abspath) IN
       /\ di <= Len(walk)
       /\ fi > Len(walk[di].files)
       /\ LET root == walk[di].root
              rel_path == NormPath(RelPath(root, abspath))
              url_path == UrlPath(BaseName(abspath), rel_path, "_.dir")
              request == [url |-> Url(config.endpoint, url_path), data |-> "",
                          dir |-> root]
          IN \/ \* sesh.put raises
                /\ puts' = Append(puts, request @@ [ok |-> FALSE, status |-> 0])
                /\ pc' = "error"
                /\ err' = [type |-> "ConnectionError", msg |-> request.url]
                /\ session' = Closed(session)
                /\ UNCHANGED <<res, current_files_count, stderr, di, fi>>
             \/ \E status \in store :
                /\ puts' = Append(puts, request @@ [ok |-> ResponseOk(status), status |-> status])
                /\ res' = status
                /\ IF RaisesForStatus(status)
                   THEN /\ pc' = "error"
                        /\ err' = [type |-> "HTTPError", msg |-> request.url]
                        /\ session' = Closed(session)
                        /\ UNCHANGED <<current_files_count, stderr, di, fi>>
                   ELSE /\ current_files_count' = current_files_count + 1
                        /\ stderr' = print_progress(stderr, current_files_count + 1,
                                                    total_files_count,
                                                    NormPath(Join(rel_path, "_.dir")),
                                                    args.show_progress)
                        /\ di' = di + 1 /\ fi' = 1
                        /\ UNCHANGED <<pc, err, session>>
    /\ UNCHANGED <<op, args, config, store, fs, abspath, dest, total_files_count, walker, copies,
                   dstDirs, dstFiles, provisionVars>>

\* upload_to_native_imagestore: after the second walk; upload then leaves the
\* session's block.
NativeComplete ==
    /\ op = "upload" /\ pc = "ns_put"
    /\ di > Len(OsWalk(fs, abspath))
    /\ stderr' = print_complete(stderr, args.show_progress)
    /\ session' = Closed(session)
    /\ pc' = "done"
    /\ UNCHANGED <<op, err, args, config, store, fs, abspath, dest, total_files_count,
                   current_files_count, di, fi, walker, res, puts, copies, dstDirs, dstFiles,
                   provisionVars>>

\* --- the inputs of upload
\* The pieces connection strings are assembled from.
Tokens == {"file:", "fabric:ImageStore", "/d", "fi"}

\* The strings of at most n tokens.
RECURSIVE TokenStrings(_)
TokenStrings(n) ==
    IF n = 0 THEN {""}
    ELSE LET prev == TokenStrings(n - 1) IN prev \cup {s \o t : s \in prev, t \in Tokens}

Endpoint == [scheme |-> "http", netloc |-> "localhost:19080"]

\* A package with one file in its root and one in a sub-directory.
SmallTree ==
    ("/s" :> [dirs |-> <<"a">>, files |-> <<"f">>])
        @@ ("/s/a" :> [dirs |-> <<>>, files |-> <<"g">>])

UploadIdle ==
    /\ op = "upload" /\ pc = "start" /\ err = NoError
    /\ abspath = "" /\ dest = ""
    /\ total_files_count = 0 /\ current_files_count = 0
    /\ di = 0 /\ fi = 0 /\ walker = NoWalk /\ res = 0
    /\ session = NoSession
    /\ puts = <<>> /\ copies = <<>> /\ stderr = <<>>
    /\ dstDirs = {} /\ dstFiles = {}
    /\ pargs = NoProvisionArgs /\ description = NoDescription
    /\ posts = <<>> /\ responses = <<>> /\ calls = <<>>

\* upload of every package tree within the bounds under the default
\* configuration: of the packages at "/s" to the native store, and of the
\* packages at "/a", whose path recurs in the paths of its sub-directories
\* named "a", to a file share.
InitTrees ==
    /\ UploadIdle
    /\ \E path \in {"/a", "/s"} :
         /\ fs \in Trees(path)
         /\ \E str \in {"fabric:ImageStore", "file:/d"} :
              /\ str = "fabric:ImageStore" <=> path = "/s"
              /\ args = [path |-> path, imagestore_string |-> str, show_progress |-> TRUE]
    /\ config = [endpoint |-> Endpoint, no_verify |-> FALSE, ca_cert_info |-> "",
                 cert_info |-> ""]
    /\ store = Statuses

\* upload of one package under every path argument, connection string and
\* configuration, to a store that may answer 304.
InitDests ==
    /\ UploadIdle
    /\ fs = SmallTree
    /\ \E path \in {"/s", "s/", "/s/f", "/x"},
          str \in TokenStrings(MaxTokens), show \in BOOLEAN :
         args = [path |-> path, imagestore_string |-> str, show_progress |-> show]
    /\ \E nv \in BOOLEAN, ca \in {"", "ca.pem"} :
         config = [endpoint |-> Endpoint, no_verify |-> nv, ca_cert_info |-> ca,
                   cert_info |-> "client.pem"]
    /\ store = StatusesWith304

\* upload of one package to a file share rooted inside the package or at
\* the directory holding it.
InitNested ==
    /\ UploadIdle
    /\ fs = SmallTree
    /\ \E str \in {"file:/s/a", "file:/s", "file:/"}, show \in BOOLEAN :
         args = [path |-> "/s", imagestore_string |-> str, show_progress |-> show]
    /\ config = [endpoint |-> Endpoint, no_verify |-> FALSE, ca_cert_info |-> "",
                 cert_info |-> ""]
    /\ store = StatusesWith304

\* ------------------------------------------------------------ provisioning
\* Arguments that are None or '' are both written "": the code tests them
\* with `not`, which does not tell them apart.  A timeout is <<>> for None
\* and <<t>> for a number t, itself written as two 16-bit words <<hi, lo>>.

UpperCase == "ABCDEFGHIJKLMNOPQRSTUVWXYZ"
LowerCase == "abcdefghijklmnopqrstuvwxyz"

\* str.lower()
RECURSIVE Lower(_)
Lower(s) ==
    IF s = "" THEN ""
    ELSE LET c == SubSeq(s, 1, 1)
             k == Find(UpperCase, c, 1)
         IN (IF k = 0 THEN c ELSE SubSeq(LowerCase, k, k)) \o Lower(SubSeq(s, 2, Len(s)))

\* sfctl.params.to_bool: the case-insensitive parse of "true" and "false".
to_bool(value) ==
    LET v == Lower(value) IN
    IF v = "true" THEN [ok |-> TRUE, value |-> TRUE]
    ELSE IF v = "false" THEN [ok |-> TRUE, value |-> FALSE]
    ELSE [ok |-> FALSE, value |-> FALSE]

\* A variant of ValidationFailure: the version of an external package is not
\* required.
ValidationFailureNoVersion(p) ==
    IF p.provision_kind = ""
    THEN "Missing required parameter --provision-kind."
    ELSE IF p.provision_kind = "ImageStorePath"
    THEN IF p.application_type_build_path = ""
         THEN "Missing required parameter --application-type-build-path."
         ELSE ""
    ELSE IF p.provision_kind = "ExternalStore"
    THEN IF p.application_package_download_uri = "" \/ p.application_type_name = ""
         THEN "Missing required parameters. The following are required: --application-package-download-uri, --application-type-name, --application-type-version."
         ELSE ""
    ELSE "Parameter --provision-kind has an incorrect value. Choose from the following: ImageStorePath, ExternalStore."

\* provision_application_type: the message of the input validation's first
\* failure, "" when the inputs pass.
ValidationFailure(p) ==
    IF p.provision_kind = ""
    THEN "Missing required parameter --provision-kind."
    ELSE IF p.provision_kind = "ImageStorePath"
    THEN IF p.application_type_build_path = ""
         THEN "Missing required parameter --application-type-build-path."
         ELSE ""
    ELSE IF p.provision_kind = "ExternalStore"
    THEN IF p.application_package_download_uri = "" \/ p.application_type_name = ""
            \/ p.application_type_version = ""
         THEN "Missing required parameters. The following are required: --application-package-download-uri, --application-type-name, --application-type-version."
         ELSE ""
    ELSE "Parameter --provision-kind has an incorrect value. Choose from the following: ImageStorePath, ExternalStore."

\* A variant of BuildDescription: the async value is dropped.
BuildDescriptionSync(p, async_) ==
    IF p.provision_kind = "ImageStorePath"
    THEN [type |-> "ProvisionApplicationTypeDescription",
          async |-> FALSE,
          application_type_build_path |-> p.application_type_build_path]
    ELSE [type |-> "ExternalStoreProvisionApplicationTypeDescription",
          async |-> FALSE,
          application_package_download_uri |-> p.application_package_download_uri,
          application_type_name |-> p.application_type_name,
          application_type_version |-> p.application_type_version]

\* provision_application_type: the description built for validated inputs
\* whose async value is async_.
BuildDescription(p, async_) ==
    IF p.provision_kind = "ImageStorePath"
    THEN [type |-> "ProvisionApplicationTypeDescription",
          async |-> async_,
          application_type_build_path |-> p.application_type_build_path]
    ELSE [type |-> "ExternalStoreProvisionApplicationTypeDescription",
          async |-> async_,
          application_package_download_uri |-> p.application_package_download_uri,
          application_type_name |-> p.application_type_name,
          application_type_version |-> p.application_type_version]

\* provision_application_type: input validation and the description.
ProvisionValidate ==
    /\ op = "provision" /\ pc = "start"
    /\ LET msg == ValidationFailure(pargs)
           parsed == to_bool(pargs.async)
       IN IF msg # ""
          THEN /\ pc' = "error"
               /\ err' = [type |-> "CLIError", msg |-> msg]
               /\ UNCHANGED description
          ELSE IF ~parsed.ok
          THEN /\ pc' = "error"
               /\ err' = [type |-> "CLIError", msg |-> "to_bool"]
               /\ UNCHANGED description
          ELSE /\ pc' = "built"
               /\ description' = BuildDescription(pargs, parsed.value)
               /\ UNCHANGED err
    /\ UNCHANGED <<op, posts, responses, calls, pargs, uploadVars>>

\* One 16-bit word of a timeout.
TimeoutWord == 65536

\* a <= b for numbers written <<hi, lo>>.
LessEq(a, b) == a[1] < b[1] \/ (a[1] = b[1] /\ a[2] <= b[2])

\* msrest's validation of the timeout query parameter: minimum=1,
\* maximum=4294967295.
TimeoutValid(t) == LessEq(<<0, 1>>, t) /\ LessEq(t, <<TimeoutWord - 1, TimeoutWord - 1>>)

\* provision_application_type: the body serialised for the description.
BodyContent(p, desc) ==
    IF p.provision_kind = "ImageStorePath"
    THEN [Kind |-> "ImageStorePath", Async |-> desc.async,
          ApplicationTypeBuildPath |-> desc.application_type_build_path]
    ELSE [Kind |-> "ExternalStore", Async |-> desc.async,
          ApplicationPackageDownloadUri |-> desc.application_package_download_uri,
          ApplicationTypeName |-> desc.application_type_name,
          ApplicationTypeVersion |-> desc.application_type_version]

\* provision_application_type: the statuses that do not raise.
ProvisionSuccess(status_code) == status_code \in {200, 202}

\* The responses of the cluster: a status and, for errors, a FabricError body.
Responses ==
    {[status_code |-> 200, body |-> ""], [status_code |-> 202, body |-> ""],
     [status_code |-> 201, body |-> ""],
     [status_code |-> 400, body |-> "FABRIC_E_INVALID_ARGUMENT"],
     [status_code |-> 500, body |-> "FABRIC_E_TIMEOUT"]}

\* provision_application_type: the request, its sending, and the response.
ProvisionSend ==
    /\ op = "provision" /\ pc = "built"
    /\ IF pargs.timeout # <<>> /\ ~TimeoutValid(pargs.timeout[1])
       THEN /\ pc' = "error"
            /\ err' = [type |-> "ValidationError", msg |-> "timeout"]
            /\ UNCHANGED <<posts, responses>>
       ELSE \E r \in Responses :
            /\ posts' = Append(posts,
                   [url |-> "/ApplicationTypes/$/Provision",
                    query |-> [api_version |-> "6.1", timeout |-> pargs.timeout],
                    headers |-> [Content_Type |-> "application/json; charset=utf-8"],
                    body |-> BodyContent(pargs, description)])
            /\ responses' = Append(responses, r)
            /\ IF ~ProvisionSuccess(r.status_code)
               THEN /\ pc' = "error"
                    /\ err' = [type |-> "FabricErrorException", msg |-> r.body]
               ELSE IF pargs.raw
               THEN \* ClientRawResponse is not defined in the module
                    /\ pc' = "error"
                    /\ err' = [type |-> "NameError", msg |-> "ClientRawResponse"]
               ELSE /\ pc' = "done"
                    /\ UNCHANGED err
    /\ UNCHANGED <<op, description, calls, pargs, uploadVars>>

\* The caller calls provision_application_type again with the same arguments.
ProvisionAgain ==
    /\ op = "provision" /\ pc \in {"done", "error"}
    /\ Len(calls) + 1 < MaxCalls
    /\ calls' = Append(calls, err)
    /\ pc' = "start"
    /\ err' = NoError
    /\ description' = NoDescription
    /\ UNCHANGED <<op, posts, responses, pargs, uploadVars>>

\* provision_application_type under every combination of its arguments.
InitProvision ==
    /\ op = "provision" /\ pc = "start" /\ err = NoError
    /\ args = NoArgs /\ config = NoConfig /\ store = {} /\ fs = <<>>
    /\ abspath = "" /\ dest = ""
    /\ total_files_count = 0 /\ current_files_count = 0
    /\ di = 0 /\ fi = 0 /\ walker = NoWalk /\ res = 0
    /\ session = NoSession
    /\ puts = <<>> /\ copies = <<>> /\ stderr = <<>>
    /\ dstDirs = {} /\ dstFiles = {}
    /\ \E kind \in {"", "ImageStorePath", "ExternalStore", "imagestorepath"},
          async_ \in {"false", "truE", "faLse", "gibberish"},
          path \in {"", "pkg"}, uri \in {"", "http://h/p.sfpkg"},
          name \in {"", "T"}, version \in {"", "1.0"},
          timeout \in {<<>>, <<<<0, 0>>>>, <<<<0, 60>>>>,
                       <<<<TimeoutWord - 1, TimeoutWord - 1>>>>, <<<<TimeoutWord, 0>>>>},
          raw \in BOOLEAN :
         pargs = [provision_kind |-> kind, async |-> async_,
                  application_type_build_path |-> path,
                  application_package_download_uri |-> uri,
                  application_type_name |-> name,
                  application_type_version |-> version,
                  timeout |-> timeout, raw |-> raw]
    /\ description = NoDescription
    /\ posts = <<>> /\ responses = <<>> /\ calls = <<>>

Init == InitTrees \/ InitDests \/ InitNested \/ InitProvision

Next ==
    \/ Upload
    \/ FileshareScan
    \/ FileshareWalk
    \/ FileshareCopy
    \/ FileshareComplete
    \/ NativeScan
    \/ NativePutFile
    \/ NativePutMarker
    \/ NativeComplete
    \/ ProvisionValidate
    \/ ProvisionSend
    \/ ProvisionAgain

Spec == Init /\ [][Next]_vars

\* ------------------------------------------------------------------ claims
\* The package: its directories, its files, and the units of a native
\* transfer in traversal order.
PackageDirs == DOMAIN fs

RECURSIVE FileCount(_)
FileCount(ds) ==
    IF ds = {} THEN 0
    ELSE LET d == CHOOSE x \in ds : TRUE IN Len(fs[d].files) + FileCount(ds \ {d})

FilesOf(d) == {NormPath(Join(d, fs[d].files[k])) : k \in 1..Len(fs[d].files)}

IsMarker(put) == put.data = ""

RECURSIVE TraversalUnits(_)
TraversalUnits(walk) ==
    IF walk = <<>> THEN <<>>
    ELSE [k \in 1..Len(Head(walk).files) |->
             [dir |-> Head(walk).root, data |-> NormPath(Join(Head(walk).root, Head(walk).files[k]))]]
         \o <<[dir |-> Head(walk).root, data |-> ""]>>
         \o TraversalUnits(Tail(walk))

NativeRun == op = "upload" /\ pc \in {"ns_put", "done", "error"} /\ session.state # "none"
                /\ total_files_count > 0
FileshareRun == op = "upload" /\ session.state = "none"
                   /\ (pc \in {"fs_copy", "done"} \/ (pc = "error" /\ err.type = "OSError"))

\* C1: a native-store transfer that finishes has issued exactly one file PUT
\* per file of the package (F in all) and exactly one "_.dir" marker PUT per
\* directory (D in all, directories without files included), and its
\* counters satisfy current = total = F + D.
C1_NativeCounts ==
    (NativeRun /\ pc = "done") =>
        /\ \A d \in PackageDirs :
             /\ Cardinality({i \in DOMAIN puts : puts[i].dir = d /\ IsMarker(puts[i])}) = 1
             /\ \A p \in FilesOf(d) :
                  Cardinality({i \in DOMAIN puts : puts[i].dir = d /\ puts[i].data = p}) = 1
        /\ Cardinality({i \in DOMAIN puts : ~IsMarker(puts[i])}) = FileCount(PackageDirs)
        /\ Cardinality({i \in DOMAIN puts : IsMarker(puts[i])}) = Cardinality(PackageDirs)
        /\ \A i \in DOMAIN puts : puts[i].ok
        /\ current_files_count = total_files_count
        /\ total_files_count = FileCount(PackageDirs) + Cardinality(PackageDirs)

C1_Witness ==
    /\ NativeRun /\ pc = "done"
    /\ Cardinality(PackageDirs) = 3 /\ FileCount(PackageDirs) = 2
    /\ \E d \in PackageDirs : fs[d].files = <<>>
    /\ res = 200 /\ Len(puts) = 5

\* A PUT that succeeded: it was answered with a 2xx status.
Succeeded(put) == put.status >= 200 /\ put.status < 300

\* C2 as stated: the "_.dir" marker PUT of a directory comes after a PUT
\* that succeeded (a 2xx answer) of every file directly inside the
\* directory, and a directory one of whose file PUTs did not succeed gets no
\* marker PUT.
C2_MarkerAfterSuccess ==
    op = "upload" =>
        \A i \in DOMAIN puts :
            IsMarker(puts[i]) =>
                /\ \A p \in FilesOf(puts[i].dir) :
                      \E j \in 1..(i - 1) :
                          puts[j].dir = puts[i].dir /\ puts[j].data = p /\ Succeeded(puts[j])
                /\ \A j \in DOMAIN puts :
                      (puts[j].dir = puts[i].dir /\ ~IsMarker(puts[j])) => Succeeded(puts[j])

\* C2 as amended: the "_.dir" marker PUT of a directory comes after a PUT of
\* every file directly inside the directory that was answered with a status
\* outside 400-599, and a directory one of whose file PUTs raised (an answer
\* with a 4xx or 5xx status, or no answer) gets no marker PUT.
C2_MarkerAfterFiles ==
    op = "upload" =>
        \A i \in DOMAIN puts :
            IsMarker(puts[i]) =>
                /\ \A p \in FilesOf(puts[i].dir) :
                      \E j \in 1..(i - 1) :
                          puts[j].dir = puts[i].dir /\ puts[j].data = p /\ puts[j].ok
                /\ \A j \in DOMAIN puts :
                      (puts[j].dir = puts[i].dir /\ ~IsMarker(puts[j])) => puts[j].ok

C2_Witness ==
    /\ NativeRun /\ pc = "error" /\ err.type = "HTTPError"
    /\ Len(puts) >= 2
    /\ ~IsMarker(puts[Len(puts)]) /\ ~puts[Len(puts)].ok
    /\ Len(fs[puts[Len(puts)].dir].files) = 2 /\ fi = 2
    /\ \A i \in DOMAIN puts : IsMarker(puts[i]) => puts[i].dir # puts[Len(puts)].dir

\* The part of a path below a directory, and whether it lies in it.
Within(p, top) == p = NormPath(top) \/ StartsWith(p, NormPath(top) \o "/")

\* The piece of a string after the first occurrence of a marker in it.
AfterFirst(str, marker) == SubSeq(str, Find(str, marker, 1) + Len(marker), Len(str))

\* C3: a file-share transfer that meets no file system error makes exactly
\* F copies and leaves a destination tree identical to the source tree: the
\* same directories, the same files at the same relative paths, the same
\* bytes in each file.
C3_FileshareMirror ==
    (FileshareRun /\ pc = "done") =>
        /\ Len(copies) = FileCount(PackageDirs)
        /\ {RelPath(d, AbsPath(dest)) : d \in {x \in dstDirs : Within(x, AbsPath(dest))}}
              = {RelPath(d, abspath) : d \in PackageDirs}
        /\ {[path |-> RelPath(e.path, AbsPath(dest)), data |-> e.data] :
                e \in {x \in dstFiles : Within(x.path, AbsPath(dest))}}
              = UNION {{[path |-> RelPath(p, abspath), data |-> p] : p \in FilesOf(d)} :
                          d \in PackageDirs}

\* C4 as stated: a PUT answered with a status outside 2xx ends the transfer
\* there: the unit is not counted and "Complete" is not written.
C4_Non2xxFatal ==
    (NativeRun /\ puts # <<>> /\ res # 0 /\ ~(res >= 200 /\ res < 300)) =>
        /\ pc = "error"
        /\ current_files_count = Len(puts) - 1
        /\ \A k \in DOMAIN stderr : stderr[k] # "Complete"

\* C4 as amended: a PUT answered with a 4xx or 5xx status, a PUT that gets
\* no answer, and a file that cannot be opened each end the transfer with an
\* error there: the failed PUT is the last PUT issued, the unit is not
\* counted, "Complete" is not written, and the PUTs issued are a prefix of
\* the traversal order of which all but a failed last one are completed
\* units.  A PUT answered with any other status is a completed unit.
C4_ErrorStatusFatal ==
    NativeRun =>
        /\ LET units == TraversalUnits(OsWalk(fs, abspath)) IN
           \A i \in DOMAIN puts :
              /\ puts[i].dir = units[i].dir
              /\ puts[i].data = units[i].data
              /\ ~puts[i].ok => (i = Len(puts) /\ pc = "error")
        /\ (res >= 400 /\ res < 600) =>
              /\ pc = "error" /\ err.type = "HTTPError"
              /\ ~puts[Len(puts)].ok /\ puts[Len(puts)].status = res
        /\ (puts # <<>> /\ ~puts[Len(puts)].ok) =>
              /\ pc = "error" /\ err.type \in {"HTTPError", "ConnectionError"}
              /\ current_files_count = Len(puts) - 1
        /\ pc = "error" =>
              /\ err.type \in {"HTTPError", "ConnectionError", "IOError"}
              /\ session.state = "closed"
              /\ \A k \in DOMAIN stderr : stderr[k] # "Complete"
              /\ Len(stderr) = IF args.show_progress THEN current_files_count ELSE 0
              /\ err.type = "IOError" => current_files_count = Len(puts)
        /\ (puts # <<>> /\ puts[Len(puts)].ok) => current_files_count = Len(puts)
        /\ pc = "done" => current_files_count = Len(puts)

C4_Witness ==
    /\ NativeRun /\ pc = "error" /\ err.type = "HTTPError"
    /\ res = 404 /\ Len(puts) = 3 /\ current_files_count = 2
    /\ IsMarker(puts[3])
    /\ Len(stderr) = 2

\* C5: a connection string containing "file:" selects the file share, rooted
\* at everything that follows the first "file:"; "fabric:ImageStore" selects
\* the native store; any other string ends upload with the unsupported
\* connection string error and no transport.
C5_Resolution ==
    (op = "upload" /\ pc # "start" /\ abspath # ""
        /\ ~(config.no_verify /\ config.ca_cert_info # "")) =>
        IF Contains(args.imagestore_string, "file:")
        THEN /\ session.state = "none"
             /\ pc \in {"fileshare", "fs_copy", "done", "error"}
             /\ err.type \in {"", "OSError"}
             /\ dest = Join(AfterFirst(args.imagestore_string, "file:"), BaseName(abspath))
        ELSE IF args.imagestore_string = "fabric:ImageStore"
        THEN /\ session.state # "none"
             /\ pc \in {"native", "ns_put", "done", "error"}
             /\ copies = <<>>
        ELSE /\ pc = "error"
             /\ err = [type |-> "CLIError", msg |-> "Unsupported image store connection string"]
             /\ session.state = "none" /\ copies = <<>> /\ puts = <<>>

\* A provisioning call rejected with message msg: nothing built, nothing sent.
Rejected(msg) ==
    /\ pc = "error"
    /\ err = [type |-> "CLIError", msg |-> msg]
    /\ description = NoDescription
    /\ posts = <<>>

\* The validation failure the inputs call for, in the order of the checks.
ExpectedRejection ==
    IF pargs.provision_kind = ""
    THEN "Missing required parameter --provision-kind."
    ELSE IF pargs.provision_kind = "ImageStorePath" /\ pargs.application_type_build_path = ""
    THEN "Missing required parameter --application-type-build-path."
    ELSE IF pargs.provision_kind = "ExternalStore"
            /\ "" \in {pargs.application_package_download_uri, pargs.application_type_name,
                       pargs.application_type_version}
    THEN "Missing required parameters. The following are required: --application-package-download-uri, --application-type-name, --application-type-version."
    ELSE IF pargs.provision_kind \notin {"ImageStorePath", "ExternalStore"}
    THEN "Parameter --provision-kind has an incorrect value. Choose from the following: ImageStorePath, ExternalStore."
    ELSE ""

\* The description type that matches the kind.
VariantOfKind ==
    IF pargs.provision_kind = "ImageStorePath" THEN "ProvisionApplicationTypeDescription"
    ELSE "ExternalStoreProvisionApplicationTypeDescription"

BooleanString(str) == Lower(str) \in {"true", "false"}

\* C6 as stated: validation reports the first failure in the fixed order and
\* then builds and sends nothing; in every other case the variant matching
\* the kind is built.
C6_ValidationOrder ==
    (op = "provision" /\ pc # "start") =>
        IF ExpectedRejection # "" THEN Rejected(ExpectedRejection)
        ELSE description.type = VariantOfKind

\* C6 as amended: validation reports the first failure in the fixed order
\* and then builds and sends nothing; in every other case the variant
\* matching the kind is built when the async string is a boolean string, and
\* otherwise the call ends with the parse error, nothing built or sent.
C6_ValidationThenParse ==
    (op = "provision" /\ pc # "start") =>
        IF ExpectedRejection # "" THEN Rejected(ExpectedRejection)
        ELSE IF BooleanString(pargs.async) THEN description.type = VariantOfKind
        ELSE Rejected("to_bool")

C6_Witness ==
    /\ op = "provision" /\ pc = "error"
    /\ pargs.provision_kind = "ExternalStore"
    /\ pargs.application_package_download_uri # "" /\ pargs.application_type_name # ""
    /\ pargs.application_type_version = ""
    /\ StartsWith(err.msg, "Missing required parameters.")
    /\ posts = <<>>

\* The outcome a response status calls for.
Decided(r, e) ==
    IF r.status_code \in {200, 202} THEN e = NoError
    ELSE e = [type |-> "FabricErrorException", msg |-> r.body]

\* C7: a provisioning call that received a response returns without raising
\* when the status is 200 or 202 and raises the provisioning error with the
\* server's error body for every other status, on the first call and on a
\* repeated call with the same inputs alike.
C7_StatusDecides ==
    op = "provision" =>
        /\ \A i \in DOMAIN calls \cap DOMAIN responses : Decided(responses[i], calls[i])
        /\ (pc \in {"done", "error"} /\ Len(responses) = Len(calls) + 1) =>
               Decided(responses[Len(responses)], err)

\* The boolean an async string stands for.
ExpectedAsync == Lower(pargs.async) = "true"

\* C8: with kind "ImageStorePath" and a build path, the ImageStorePath
\* variant is built, with the async field the case-insensitive parse of the
\* async string and the build path given, and it is the body sent; an async
\* string that is no boolean string ends the call with a parse error and no
\* POST.
C8_ImageStorePathVariant ==
    (op = "provision" /\ pc # "start" /\ pargs.provision_kind = "ImageStorePath"
        /\ pargs.application_type_build_path # "") =>
        IF BooleanString(pargs.async)
        THEN /\ description = [type |-> "ProvisionApplicationTypeDescription",
                               async |-> ExpectedAsync,
                               application_type_build_path |-> pargs.application_type_build_path]
             /\ \A i \in DOMAIN posts :
                    posts[i].body = [Kind |-> "ImageStorePath", Async |-> ExpectedAsync,
                                     ApplicationTypeBuildPath |-> pargs.application_type_build_path]
        ELSE Rejected("to_bool")

C8_Witness ==
    /\ op = "provision" /\ pc = "done"
    /\ pargs.provision_kind = "ImageStorePath" /\ pargs.async = "truE"
    /\ description.type = "ProvisionApplicationTypeDescription" /\ description.async = TRUE
    /\ Len(posts) = 1 /\ posts[1].body.Async = TRUE

\* C9: an upload whose package path is not a directory, whose configuration
\* sets both "no verify" and a CA bundle, or whose connection string has
\* neither recognised form, ends with the matching error and has copied no
\* file, created no directory, opened no session and issued no PUT.
C9_PrechecksBeforeTransfer ==
    (op = "upload" /\ pc # "start") =>
        LET nothing == /\ pc = "error"
                       /\ copies = <<>> /\ dstDirs = {} /\ dstFiles = {}
                       /\ session = NoSession /\ puts = <<>> /\ stderr = <<>>
        IN IF NormPath(Join(Cwd, args.path)) \notin DOMAIN fs
           THEN nothing /\ err.type = "ValueError"
           ELSE IF config.no_verify /\ config.ca_cert_info # ""
           THEN nothing /\ err = [type |-> "CLIError",
                                  msg |-> "Cannot specify both CA cert info and no verify"]
           ELSE IF ~Contains(args.imagestore_string, "file:")
                   /\ args.imagestore_string # "fabric:ImageStore"
           THEN nothing /\ err = [type |-> "CLIError",
                                  msg |-> "Unsupported image store connection string"]
           ELSE err.type \notin {"ValueError", "CLIError"}

C9_Witness ==
    /\ op = "upload" /\ pc = "error"
    /\ config.no_verify /\ config.ca_cert_info = "ca.pem"
    /\ args.imagestore_string = "fabric:ImageStore"
    /\ err.msg = "Cannot specify both CA cert info and no verify"
    /\ session = NoSession /\ puts = <<>>

\* The completed units of the upload.
Completed == Len(copies) + Cardinality({i \in DOMAIN puts : puts[i].ok})

\* The progress lines are numbered 1, 2, ... and carry the total.
ProgressLines ==
    LET n == IF args.show_progress THEN current_files_count ELSE 0 IN
    /\ Len(stderr) = IF pc = "done" /\ args.show_progress THEN n + 1 ELSE n
    /\ \A k \in 1..n :
          StartsWith(stderr[k], "[" \o ToString(k) \o "/" \o ToString(total_files_count)
                                    \o "] files, ")

C10_State ==
    /\ (op = "upload" /\ ~FileshareRun /\ ~NativeRun) =>
          (current_files_count = 0 /\ total_files_count = 0 /\ stderr = <<>>)
    /\ FileshareRun =>
          /\ total_files_count = FileCount(PackageDirs)
          /\ current_files_count = Completed
          /\ current_files_count <= total_files_count
          /\ ProgressLines
    /\ NativeRun =>
          /\ total_files_count = FileCount(PackageDirs) + Cardinality(PackageDirs)
          /\ current_files_count = Completed
          /\ current_files_count <= total_files_count
          /\ ProgressLines

C10_Step ==
    /\ pc \in {"fs_copy", "ns_put"} => total_files_count' = total_files_count
    /\ \/ current_files_count' = current_files_count /\ Completed' = Completed
       \/ current_files_count' = current_files_count + 1 /\ Completed' = Completed + 1

\* C10: in both transports the total is the pre-scan's count (files for the
\* file share, files plus directories for the native store) and does not
\* change during the transfer; current starts at 0, grows by exactly one
\* with each completed unit and with nothing else, stays within 0..total,
\* and the k-th progress line reports k.
C10_Progress == []C10_State /\ [][C10_Step]_vars
====
